---- MODULE Spec2Model ----
(***************************************************************************)
(* Epsilon-production elimination of Ejercicio2/Ejercicio2.py:             *)
(* find_nullable_with_steps (the nullable fixpoint), power_set_indices and *)
(* remove_epsilon_with_steps.  A production is a Python string; here it is *)
(* the sequence of its characters, and the one-character string 'ε' is the *)
(* sequence <<"eps">>.  Positions are counted from 1 (Python: from 0).     *)
(* The step trace (steps) is write-only in the source and is not modelled. *)
(***************************************************************************)
EXTENDS Naturals, Sequences, FiniteSets

\* ---------------------------------------------------------------- bounds
\* The most productions (head, body pairs) a grammar holds.
MaxRules == 3
\* The longest terminal word the two languages are compared on.
MaxWordLen == 3

\* The uppercase letters and the lowercase letters / digits grammars are built of.
Nonterminals == {"S", "A"}
Terminals == {"a", "b"}
Symbols == Nonterminals \cup Terminals

\* The production 'ε'.
EPS == <<"eps">>

\* The bodies a well-formed line holds: 'ε', or one or two symbols.
Bodies ==
  {EPS} \cup {<<x>> : x \in Symbols} \cup {<<x, y>> : x, y \in Symbols}

Rules == Nonterminals \X Bodies

RECURSIVE RuleSets(_)
RuleSets(k) ==
  IF k = 0 THEN {{}}
  ELSE LET smaller == RuleSets(k - 1)
       IN  smaller \cup {rs \cup {r} : rs \in smaller, r \in Rules}

\* load_and_validate_grammar: a dict from each head to the set of its productions.
GrammarOf(rs) ==
  [h \in {r[1] : r \in rs} |-> {r[2] : r \in {q \in rs : q[1] = h}}]

\* The orders a finite set can be iterated in.
Orders(S) ==
  {o \in [1..Cardinality(S) -> S] : \A i, j \in 1..Cardinality(S) : o[i] = o[j] => i = j}

VARIABLES
  grammar,      \* the input dict: head -> set of productions
  order,        \* the dict's insertion order (grammar.keys())
  pc,           \* "while" | "for" | "elim" | "done" | "error"
  nullable,     \* find_nullable_with_steps: nullable
  changed,      \* find_nullable_with_steps: changed
  iteration,    \* find_nullable_with_steps: iteration
  idx,          \* position of the running for loop in order
  pass_start,   \* history: nullable as it was when the running pass began
  new_grammar   \* remove_epsilon_with_steps: new_grammar

vars == <<grammar, order, pc, nullable, changed, iteration, idx, pass_start, new_grammar>>

Heads == DOMAIN grammar

\* re.match(r'[a-z0-9]', s)
IsTerminal(s) == s \in Terminals

\* Mutant of ScanProds: any(...) for all(...) at line 102.
RECURSIVE ScanProdsAny(_, _, _)
ScanProdsAny(prods, i, N) ==
  IF i > Len(prods) THEN FALSE
  ELSE LET prod == prods[i]
       IN  IF prod = EPS THEN TRUE
           ELSE IF \E k \in 1..Len(prod) : IsTerminal(prod[k])
                THEN ScanProdsAny(prods, i + 1, N)
           ELSE IF \E k \in 1..Len(prod) : prod[k] \in N THEN TRUE
           ELSE ScanProdsAny(prods, i + 1, N)

\* Mutant of ScanProds: break for continue at line 100.
RECURSIVE ScanProdsBreak(_, _, _)
ScanProdsBreak(prods, i, N) ==
  IF i > Len(prods) THEN FALSE
  ELSE LET prod == prods[i]
       IN  IF prod = EPS THEN TRUE
           ELSE IF \E k \in 1..Len(prod) : IsTerminal(prod[k]) THEN FALSE
           ELSE IF \A k \in 1..Len(prod) : prod[k] \in N THEN TRUE
           ELSE ScanProdsBreak(prods, i + 1, N)

\* The for loop over the productions of one head (lines 87-109), prods in the
\* order the set is iterated in: TRUE when the head is added (break).
RECURSIVE ScanProds(_, _, _)
ScanProds(prods, i, N) ==
  IF i > Len(prods) THEN FALSE
  ELSE LET prod == prods[i]
       IN  IF prod = EPS THEN TRUE
           ELSE IF \E k \in 1..Len(prod) : IsTerminal(prod[k])
                THEN ScanProds(prods, i + 1, N)
           ELSE IF \A k \in 1..Len(prod) : prod[k] \in N THEN TRUE
           ELSE ScanProds(prods, i + 1, N)

Init ==
  /\ grammar \in {GrammarOf(rs) : rs \in RuleSets(MaxRules)}
  /\ order \in Orders(DOMAIN grammar)
  /\ pc = "while"
  /\ nullable = {}
  /\ changed = TRUE
  /\ iteration = 0
  /\ idx = 0
  /\ pass_start = {}
  /\ new_grammar = << >>

\* Mutant of BeginPass: changed is not reset at line 81.
BeginPassNoReset ==
  /\ pc = "while"
  /\ changed
  /\ iteration' = iteration + 1
  /\ idx' = 1
  /\ pass_start' = nullable
  /\ pc' = "for"
  /\ UNCHANGED <<grammar, order, nullable, changed, new_grammar>>

\* while changed: iteration += 1; changed = False  (lines 79-82)
BeginPass ==
  /\ pc = "while"
  /\ changed
  /\ iteration' = iteration + 1
  /\ changed' = FALSE
  /\ idx' = 1
  /\ pass_start' = nullable
  /\ pc' = "for"
  /\ UNCHANGED <<grammar, order, nullable, new_grammar>>

\* Mutant of VisitHead: a head that is already nullable sets changed too.
VisitHeadSkipChanges ==
  /\ pc = "for"
  /\ idx <= Len(order)
  /\ LET head == order[idx]
     IN  IF head \in nullable
         THEN changed' = TRUE /\ UNCHANGED nullable
         ELSE \E prods \in Orders(grammar[head]) :
                IF ScanProds(prods, 1, nullable)
                THEN /\ nullable' = nullable \cup {head}
                     /\ changed' = TRUE
                ELSE UNCHANGED <<nullable, changed>>
  /\ idx' = idx + 1
  /\ UNCHANGED <<grammar, order, pc, iteration, pass_start, new_grammar>>

\* One turn of `for head, prods in grammar.items()` (lines 83-109).
VisitHead ==
  /\ pc = "for"
  /\ idx <= Len(order)
  /\ LET head == order[idx]
     IN  IF head \in nullable
         THEN UNCHANGED <<nullable, changed>>
         ELSE \E prods \in Orders(grammar[head]) :
                IF ScanProds(prods, 1, nullable)
                THEN /\ nullable' = nullable \cup {head}
                     /\ changed' = TRUE
                ELSE UNCHANGED <<nullable, changed>>
  /\ idx' = idx + 1
  /\ UNCHANGED <<grammar, order, pc, iteration, pass_start, new_grammar>>

\* The for loop is exhausted: back to the while test.
EndPass ==
  /\ pc = "for"
  /\ idx > Len(order)
  /\ pc' = "while"
  /\ UNCHANGED <<grammar, order, nullable, changed, iteration, idx, pass_start, new_grammar>>

\* ------------------------------------------------ power_set_indices
\* (mask >> i) & 1
Bit(mask, i) == (mask \div (2 ^ i)) % 2

\* [indices[i] for i in range(n) if (mask >> i) & 1]   (line 124), from index i on
RECURSIVE MaskSubset(_, _, _)
MaskSubset(indices, mask, i) ==
  IF i > Len(indices) THEN << >>
  ELSE IF Bit(mask, i - 1) = 1
       THEN <<indices[i]>> \o MaskSubset(indices, mask, i + 1)
       ELSE MaskSubset(indices, mask, i + 1)

\* Mutant of power_set_indices: range((1 << n) - 1), the full subset is missed.
power_set_indices_short(indices) ==
  [m \in 1..((2 ^ Len(indices)) - 1) |-> MaskSubset(indices, m - 1, 1)]

\* for mask in range(1 << n): res.append(subset)   (lines 121-126)
power_set_indices(indices) ==
  [m \in 1..(2 ^ Len(indices)) |-> MaskSubset(indices, m - 1, 1)]

\* --------------------------------------- remove_epsilon_with_steps
\* positions = [i for i, s in enumerate(symbols) if s in nullable]   (line 149)
RECURSIVE PositionsFrom(_, _, _)
PositionsFrom(symbols, N, i) ==
  IF i > Len(symbols) THEN << >>
  ELSE IF symbols[i] \in N
       THEN <<i>> \o PositionsFrom(symbols, N, i + 1)
       ELSE PositionsFrom(symbols, N, i + 1)

positions(symbols, N) == PositionsFrom(symbols, N, 1)

Range(s) == {s[i] : i \in 1..Len(s)}

\* new_prod_syms = [s for i, s in enumerate(symbols) if i not in subset]  (line 158)
RECURSIVE RemoveFrom(_, _, _)
RemoveFrom(symbols, subset, i) ==
  IF i > Len(symbols) THEN << >>
  ELSE IF i \in Range(subset)
       THEN RemoveFrom(symbols, subset, i + 1)
       ELSE <<symbols[i]>> \o RemoveFrom(symbols, subset, i + 1)

\* "".join(new_prod_syms), and 'ε' for the empty string   (lines 158-161)
new_prod(symbols, subset) ==
  LET new_prod_syms == RemoveFrom(symbols, subset, 1)
  IN  IF new_prod_syms = << >> THEN EPS ELSE new_prod_syms

\* Mutant of ProdVariants: the nullable symbols are deleted all together or not at all.
ProdVariantsAllOrNone(prod, N) ==
  IF prod = EPS THEN {}
  ELSE LET pos == positions(prod, N)
       IN  IF pos # << >> THEN {prod, new_prod(prod, pos)} ELSE {prod}

\* What one production adds to new_grammar[head]   (lines 143-168)
ProdVariants(prod, N) ==
  IF prod = EPS THEN {}
  ELSE LET pos == positions(prod, N)
       IN  IF pos # << >>
           THEN LET subsets == power_set_indices(pos)
                IN  {new_prod(prod, subsets[m]) : m \in 1..Len(subsets)}
           ELSE {prod}

\* for prod in sorted(prods): ... new_grammar[head].add(...)   (lines 142-168);
\* the adds build a set, so the sorted order does not show in the result.
HeadVariants(prods, N) == UNION {ProdVariants(prod, N) : prod \in prods}

\* Mutant of EmptyCopy: only the heads that have a production other than 'ε'.
EmptyCopyNonEps(g) == [nt \in {h \in DOMAIN g : g[h] # {EPS}} |-> {}]

\* new_grammar = {nt: set() for nt in grammar}   (line 138)
EmptyCopy(g) == [nt \in DOMAIN g |-> {}]

\* while changed: is false: find_nullable_with_steps returns, and
\* remove_epsilon_with_steps builds the empty new_grammar (lines 110-111, 133-138).
ReturnNullable ==
  /\ pc = "while"
  /\ ~changed
  /\ new_grammar' = EmptyCopy(grammar)
  /\ idx' = 1
  /\ pc' = "elim"
  /\ UNCHANGED <<grammar, order, nullable, changed, iteration, pass_start>>

\* One turn of `for head, prods in grammar.items()` (lines 140-168).
ElimHead ==
  /\ pc = "elim"
  /\ idx <= Len(order)
  /\ LET head == order[idx]
     IN  new_grammar' =
           [new_grammar EXCEPT ![head] = @ \cup HeadVariants(grammar[head], nullable)]
  /\ idx' = idx + 1
  /\ UNCHANGED <<grammar, order, pc, nullable, changed, iteration, pass_start>>

\* Mutant of StartEpsilon: the last step never adds 'ε'.
StartEpsilonNever(start_symbol, N) == {}

\* What the last step adds under the start symbol   (lines 172-176)
StartEpsilon(start_symbol, N) == IF start_symbol \in N THEN {EPS} ELSE {}

\* start_symbol = next(iter(grammar.keys())) and the last step (lines 171-179).
StartSymbolStep ==
  /\ pc = "elim"
  /\ idx > Len(order)
  /\ order # << >>
  /\ LET start_symbol == order[1]
     IN  new_grammar' =
           [new_grammar EXCEPT ![start_symbol] = @ \cup StartEpsilon(start_symbol, nullable)]
  /\ pc' = "done"
  /\ UNCHANGED <<grammar, order, nullable, changed, iteration, idx, pass_start>>

\* next(iter({}.keys())) raises StopIteration: nothing is returned (line 171).
StartSymbolRaise ==
  /\ pc = "elim"
  /\ idx > Len(order)
  /\ order = << >>
  /\ pc' = "error"
  /\ UNCHANGED <<grammar, order, nullable, changed, iteration, idx, pass_start, new_grammar>>

Next ==
  \/ BeginPass
  \/ VisitHead
  \/ EndPass
  \/ ReturnNullable
  \/ ElimHead
  \/ StartSymbolStep
  \/ StartSymbolRaise

Spec == Init /\ [][Next]_vars

\* The interpreter runs the function to its end: a step that can be taken is taken.
FairSpec == Spec /\ WF_vars(Next)

\* ------------------------------------------------------------ ground truth
\* The words of length at most MaxWordLen each head derives, by brute force:
\* the least solution of the grammar's equations over sets of short words.
Concat(X, Y) == {w \in {x \o y : x \in X, y \in Y} : Len(w) <= MaxWordLen}

SymLang(s, L) ==
  IF s \in Terminals THEN {<<s>>} ELSE IF s \in DOMAIN L THEN L[s] ELSE {}

RECURSIVE BodyLang(_, _, _)
BodyLang(body, i, L) ==
  IF i > Len(body) THEN {<< >>}
  ELSE Concat(SymLang(body[i], L), BodyLang(body, i + 1, L))

ProdLang(p, L) == IF p = EPS THEN {<< >>} ELSE BodyLang(p, 1, L)

LangStep(G, L) == [h \in DOMAIN G |-> UNION {ProdLang(p, L) : p \in G[h]}]

RECURSIVE LangFix(_, _)
LangFix(G, L) ==
  LET n == LangStep(G, L) IN IF n = L THEN L ELSE LangFix(G, n)

Lang(G) == LangFix(G, [h \in DOMAIN G |-> {}])

\* X is closed under the two rules: head -> ε, and head -> s1..sk with every si in X.
Closed(G, X) ==
  \A h \in DOMAIN G : \A p \in G[h] :
    (p = EPS \/ \A k \in 1..Len(p) : p[k] \in X) => h \in X

\* The least closed set: what every closed set of heads holds.
LeastClosed(G) ==
  {h \in DOMAIN G : \A X \in SUBSET DOMAIN G : Closed(G, X) => h \in X}

\* find_nullable_with_steps has just returned (line 111): nullable is its result.
NullableReturned == pc = "elim" /\ idx = 1

\* C1: the set find_nullable_with_steps returns is the least fixpoint of the two
\* rules; a head is in it iff it derives the empty word; only heads are ever in it.
NullableIsLeastFixpoint ==
  /\ nullable \subseteq Heads
  /\ NullableReturned =>
       /\ nullable = LeastClosed(grammar)
       /\ LET L == Lang(grammar)
          IN  \A h \in Heads : h \in nullable <=> << >> \in L[h]

\* A head is nullable only through another head, next to a production of its
\* own that a terminal blocks.
NullableWitness ==
  /\ NullableReturned
  /\ \E h \in nullable :
       /\ EPS \notin grammar[h]
       /\ \E p \in grammar[h] : \E k \in 1..Len(p) : IsTerminal(p[k])

\* C2: the new grammar derives from the start symbol the same words (of length
\* at most MaxWordLen, the empty word included) as the input grammar.
LanguagePreserved ==
  pc = "done" => Lang(new_grammar)[order[1]] = Lang(grammar)[order[1]]

\* The start symbol derives the empty word and a longer one, and an ε was dropped
\* under another head.
LanguageWitness ==
  /\ pc = "done"
  /\ << >> \in Lang(grammar)[order[1]]
  /\ \E w \in Lang(grammar)[order[1]] : Len(w) >= 2
  /\ \E h \in Heads \ {order[1]} : EPS \in grammar[h] /\ new_grammar[h] # grammar[h]

\* C3: the new grammar has 'ε' under the start symbol iff the start symbol is nullable.
StartEpsilonIffNullable ==
  pc = "done" => (EPS \in new_grammar[order[1]] <=> order[1] \in nullable)

\* The start symbol is nullable without an 'ε' production of its own.
StartEpsilonWitness ==
  /\ pc = "done"
  /\ order[1] \in nullable
  /\ EPS \notin grammar[order[1]]
  /\ EPS \in new_grammar[order[1]]

\* C4: the new grammar has no 'ε' under a head other than the start symbol, and
\* none at all when the start symbol is not nullable.
NoEpsilonOutsideStart ==
  pc = "done" =>
    /\ \A h \in Heads \ {order[1]} : EPS \notin new_grammar[h]
    /\ order[1] \notin nullable => \A h \in Heads : EPS \notin new_grammar[h]

\* The start symbol is not nullable and the new grammar still has an 'ε'.
EpsilonOutsideStartReached ==
  /\ pc = "done"
  /\ order[1] \notin nullable
  /\ \E h \in Heads : EPS \in new_grammar[h]

\* The positions of p that hold a nullable symbol.
NullPos(p) == {i \in 1..Len(p) : p[i] \in nullable}

\* p without the symbols at the positions in S, the others in their order.
Without(p, S) ==
  LET kept == (1..Len(p)) \ S
      nth(j) == CHOOSE i \in kept : Cardinality({k \in kept : k < i}) = j - 1
      rest == [j \in 1..Cardinality(kept) |-> p[nth(j)]]
  IN  IF kept = {} THEN EPS ELSE rest

Candidates(p) == {Without(p, S) : S \in SUBSET NullPos(p)}

\* The for loop of lines 140-168 has handled the i-th head.
Handled(i) == pc = "done" \/ (pc = "elim" /\ i < idx)

\* C5: a production with nullable positions P is enumerated with exactly the
\* 2^|P| subsets of P; each head gets exactly the productions its non-ε
\* productions yield by deleting a subset of P (the production itself among
\* them, and it alone when P is empty, at most 2^|P| of them), and besides these
\* only the start symbol's 'ε' of the last step.
VariantsAreSubsetDeletions ==
  pc \in {"elim", "done"} =>
    \A i \in 1..Len(order) :
      LET head == order[i]
          last == IF pc = "done" /\ i = 1 /\ head \in nullable THEN {EPS} ELSE {}
      IN  /\ new_grammar[head] =
               (IF Handled(i)
                THEN UNION {Candidates(p) : p \in grammar[head] \ {EPS}}
                ELSE {}) \cup last
          /\ \A p \in grammar[head] \ {EPS} :
               LET subsets == power_set_indices(positions(p, nullable))
                   added == ProdVariants(p, nullable)
               IN  /\ Len(subsets) = 2 ^ Cardinality(NullPos(p))
                   /\ {Range(subsets[m]) : m \in 1..Len(subsets)} = SUBSET NullPos(p)
                   /\ \A m, n \in 1..Len(subsets) : subsets[m] = subsets[n] => m = n
                   /\ Cardinality(added) <= 2 ^ Cardinality(NullPos(p))
                   /\ NullPos(p) = {} => added = {p}
                   /\ Handled(i) => p \in new_grammar[head]

\* A production with two nullable positions whose four deletions give fewer than
\* four productions, and one whose two deletions give two.
VariantsWitness ==
  /\ pc = "done"
  /\ \E h \in Heads : \E p \in grammar[h] \ {EPS} :
       /\ Cardinality(NullPos(p)) = 2
       /\ Cardinality(ProdVariants(p, nullable)) < 4
       /\ ProdVariants(p, nullable) \subseteq new_grammar[h]
  /\ \E h \in Heads : \E p \in grammar[h] \ {EPS} :
       /\ Cardinality(NullPos(p)) = 1
       /\ Len(p) = 2

\* C6: on the empty grammar nothing is raised, the nullable set is empty and the
\* new grammar is the empty mapping.
EmptyGrammarCompletes ==
  Heads = {} =>
    /\ pc # "error"
    /\ NullableReturned => nullable = {}
    /\ pc = "done" => new_grammar = << >>

\* The empty grammar ends in the raise of line 171.
EmptyGrammarRaises == Heads = {} /\ pc = "error"

\* -------------------------------- find_nullable_with_steps as a function
\* The sets a run of lines 83-109 from the i-th head on can end with, over every
\* order the productions of each head can be iterated in: <<nullable, changed>>.
RECURSIVE PassResults(_, _, _, _, _)
PassResults(G, o, i, N, ch) ==
  IF i > Len(o) THEN {<<N, ch>>}
  ELSE IF o[i] \in N THEN PassResults(G, o, i + 1, N, ch)
  ELSE UNION {IF ScanProds(prods, 1, N)
              THEN PassResults(G, o, i + 1, N \cup {o[i]}, TRUE)
              ELSE PassResults(G, o, i + 1, N, ch) : prods \in Orders(G[o[i]])}

\* The while loop of lines 79-109: the sets it can return.
RECURSIVE WhileResults(_, _, _, _)
WhileResults(G, o, N, ch) ==
  IF ~ch THEN {N}
  ELSE UNION {WhileResults(G, o, r[1], r[2]) : r \in PassResults(G, o, 1, N, FALSE)}

\* Every set find_nullable_with_steps can return on G with its heads in order o.
find_nullable_with_steps(G, o) == WhileResults(G, o, {}, TRUE)

\* C7: the returned nullable set is a function of the grammar alone: whatever
\* order the heads and the productions of a head are iterated in, every run
\* returns the set this run returned.
NullableOrderIndependent ==
  NullableReturned =>
    \A o \in Orders(Heads) : find_nullable_with_steps(grammar, o) = {nullable}

\* Two heads, one with two productions, so that both orders have alternatives,
\* and a head that is nullable only once the other is.
OrderWitness ==
  /\ NullableReturned
  /\ Cardinality(Heads) = 2
  /\ \E h \in Heads : Cardinality(grammar[h]) = 2
  /\ \E h \in nullable : EPS \notin grammar[h]
  /\ iteration = 3

\* C8: the new grammar has the heads of the input grammar; a head other than the
\* start symbol whose only production is 'ε' keeps an empty production set, and
\* S -> aA, A -> ε becomes S -> aA | a with A empty.
HeadsPreserved ==
  /\ pc \in {"elim", "done"} => DOMAIN new_grammar = DOMAIN grammar
  /\ pc = "done" =>
       /\ \A h \in Heads \ {order[1]} : grammar[h] = {EPS} => new_grammar[h] = {}
       /\ (order = <<"S", "A">> /\ grammar["S"] = {<<"a", "A">>} /\ grammar["A"] = {EPS})
            => (new_grammar["S"] = {<<"a", "A">>, <<"a">>} /\ new_grammar["A"] = {})

\* The grammar S -> aA, A -> ε has been transformed.
HeadsWitness ==
  /\ pc = "done"
  /\ order = <<"S", "A">>
  /\ grammar["S"] = {<<"a", "A">>}
  /\ grammar["A"] = {EPS}
  /\ new_grammar["A"] = {}

\* Control has left remove_epsilon_with_steps.
Terminated == pc \in {"done", "error"}

\* C9: every run terminates; nullable only grows; a pass leaves changed set
\* exactly when it added a head, and the loop exits after the first pass that
\* added none.
NullableTerminates ==
  /\ <>Terminated
  /\ [][nullable \subseteq nullable']_vars
  /\ [][(pc = "for" /\ pc' = "while") =>
          (changed <=> (pass_start # nullable /\ pass_start \subseteq nullable))]_vars
  /\ [][(pc = "while" /\ iteration > 0 /\ nullable = pass_start) => pc' = "elim"]_vars

\* A run of three passes has ended.
TerminationWitness == pc = "done" /\ iteration = 3 /\ Cardinality(nullable) = 2

\* C10 as stated: the passes are at most as many as the heads (read here on the
\* grammars that have a head; the empty grammar takes one pass with none).
PassesAtMostHeads == Heads # {} => iteration <= Cardinality(Heads)

\* C10, amended: the passes are at most one more than the heads.
PassesAtMostHeadsPlusOne == iteration <= Cardinality(Heads) + 1

\* Two heads, each added in a pass of its own, and the third pass that adds none.
PassesWitness ==
  /\ Cardinality(Heads) = 2
  /\ iteration = 3
  /\ pc = "while"
  /\ ~changed
====
